---- MODULE Spec2Model ----
(***************************************************************************)
(* The dipole simulation worker (src/dipole-worker.js) and the consumer    *)
(* that receives its matrix buffers (the page script, src/unnamed/part_000)*)
(*                                                                         *)
(* Units.  The worker keeps times in milliseconds (timestamps) and in      *)
(* seconds (deltaTime, life).  Here every quantity in seconds is held      *)
(* multiplied by MsPerSecond, so that all arithmetic stays in integers:    *)
(*   deltaMs = deltaTime * 1000,   life (here) = dipole.life * 1000.       *)
(* Math.random() is a draw r / RandDen with r in RandNums.                 *)
(*                                                                         *)
(* A transform matrix is held as what decides its visible scale: which     *)
(* call wrote it and, for a living dipole, the life progress it was        *)
(* computed from.  Position, orientation, spin axis and peak scale of a    *)
(* dipole never influence control flow and are not held.                   *)
(***************************************************************************)
EXTENDS Integers, Sequences, FiniteSets, TLC

\* ------------------------------------------------------------------ bounds
MaxCap == 2        \* largest maxDipoles an init message carries
MaxSteps == 2      \* animation frames that occur
MaxPairs == 3      \* buffer pairs that exist at once (allocated and not collected)
MaxCallbacks == 2  \* updateSimulation callbacks registered at once
PageSteps == 5     \* animation frames that occur in a run of the page
ReinitSteps == 3   \* animation frames that occur in a run with a second init

\* --------------------------------------------------------------- constants
MsPerSecond == 1000        \* (timestamp - lastTimestamp) / 1000
DefaultDeltaMs == 16       \* the 0.016 s used when lastTimestamp is not > 0
FloatsPerMatrix == 16      \* index * 16
BytesPerFloat == 4         \* maxDipoles * 16 * 4
RandDen == 10              \* Math.random() = r / RandDen
StepMs == MsPerSecond \div 2       \* time from one frame to the next
FrameLagMs == StepMs                \* how long after its stamp a frame's callbacks may run
RandNums == {0, 5}
MeshCapacity == MaxCap     \* the consumer's InstancedMesh count (its maxDipoles)

Caps == 1..MaxCap
BufIds == 1..(2 * MaxPairs)
Undefined == 0             \* a buffer variable that was never assigned

\* ------------------------------------------------------------ configuration
ParamFields ==
    {"dipoleLifetime", "speed", "creationProbability",
     "maxScaleBase", "scaleVariance", "spinSpeed"}

FullParams(lifetime, speed, prob) ==
    [f \in ParamFields |->
        CASE f = "dipoleLifetime" -> lifetime
          [] f = "speed" -> speed
          [] f = "creationProbability" -> prob
          [] OTHER -> 1]

\* the params objects an init message carries (all fields present)
InitParams == {FullParams(1, 1, 1)}

\* the params objects the page's init and updateParams messages carry: lifetime
\* base, speed multiplier and spawn rate as the page's controls have set them
PageParams == {FullParams(1, 1, 1), FullParams(1, 1, 2),
               FullParams(2, 1, 1), FullParams(2, 1, 2)}

\* the params objects an updateParams message carries (a partial field set)
ParamUpdates ==
    {[f \in {"speed", "creationProbability"} |-> 2]}

\* (mutant) a merge in which the fields the worker already has win
MergeKeepsOld(old, new) ==
    [f \in (DOMAIN old) \cup (DOMAIN new) |->
        IF f \in DOMAIN old THEN old[f] ELSE new[f]]

\* { ...params, ...data.params }
MergeParams(old, new) ==
    [f \in (DOMAIN old) \cup (DOMAIN new) |->
        IF f \in DOMAIN new THEN new[f] ELSE old[f]]

\* ------------------------------------------------------------- matrices
ZeroMat == [kind |-> "zero", num |-> 0, den |-> 1]     \* untouched bytes of a new ArrayBuffer
HideMat == [kind |-> "hide", num |-> 0, den |-> 1]     \* updateInstanceMatrix(dipole, 0)
EpsMat == [kind |-> "eps", num |-> 0, den |-> 1]       \* updateInstanceMatrix(dipole, 0.001)
\* updateInstanceMatrix(dipole, sin(progress * PI) * maxScale), progress = num / den
LiveMat(num, den) == [kind |-> "live", num |-> num, den |-> den]

ZeroData(n) == [i \in 0..(n - 1) |-> ZeroMat]

\* --------------------------------------------------------------- the heap
\* An ArrayBuffer: who holds it, its byteLength and its content, one matrix
\* per FloatsPerMatrix floats.  owner "none": the id names no live buffer.
Blank == [owner |-> "none", byteLength |-> 0, data |-> ZeroData(0)]

FreeIds(h) == {b \in BufIds : h[b].owner = "none"}

FreshId(h) == CHOOSE b \in FreeIds(h) : \A c \in FreeIds(h) : b <= c

\* new ArrayBuffer(bytes), placed at id
NewArrayBuffer(h, id, bytes) ==
    [h EXCEPT ![id] = [owner |-> "worker", byteLength |-> bytes,
                       data |-> ZeroData(bytes \div (FloatsPerMatrix * BytesPerFloat))]]

\* a buffer the worker no longer references is collected
Drop(h, id) ==
    IF id # Undefined /\ h[id].owner = "worker" THEN [h EXCEPT ![id] = Blank] ELSE h

\* postMessage(..., [red, blue]): both buffers leave the sender
Transfer(h, red, blue, to) ==
    [h EXCEPT ![red].owner = to, ![blue].owner = to]

\* length of a Float32Array view; a view of a detached buffer has length 0
ViewLength(h, id) ==
    IF id # Undefined /\ h[id].owner = "worker"
    THEN h[id].byteLength \div BytesPerFloat
    ELSE 0

\* ------------------------------------------------------------ sequences
Push(s, x) == Append(s, x)
Pop(s) == SubSeq(s, 1, Len(s) - 1)
Top(s) == s[Len(s)]
\* (mutant) the splice that removes nothing
SpliceNothing(s, i) == s

\* array.splice(i, 1) with a 0-based i
Splice1(s, i) == SubSeq(s, 1, i) \o SubSeq(s, i + 2, Len(s))
Elems(s) == {s[k] : k \in 1..Len(s)}

VARIABLES
    \* worker state
    dipoles,              \* slot -> [life, maxLife, instanceIndex]
    instanceIndices,      \* free list
    activeDipoleIndices,  \* active list
    maxDipoles,
    params,
    redMatricesBuffer, blueMatricesBuffer,   \* buffer ids
    redMatrices, blueMatrices,               \* the buffers the views are on
    lastTimestamp,
    simulationRunning,
    \* the worker's animation frame callbacks
    rafQueue,             \* updateSimulation callbacks registered for the next frame
    frameRun,             \* callbacks of the frame being run that have not run yet
    frameTs,              \* timestamp of the latest frame
    \* buffers and message channels
    heap,
    toMain,               \* matricesUpdate messages posted and not delivered
    toWorker,             \* returnBuffers messages posted and not delivered
    \* consumer state
    meshRed, meshBlue, needsUpdate,
    \* what the latest handler did
    last

workerVars ==
    <<dipoles, instanceIndices, activeDipoleIndices, maxDipoles, params,
      redMatricesBuffer, blueMatricesBuffer, redMatrices, blueMatrices,
      lastTimestamp, simulationRunning>>
poolVars == <<dipoles, instanceIndices, activeDipoleIndices, maxDipoles>>
bufferVars == <<redMatricesBuffer, blueMatricesBuffer, redMatrices, blueMatrices>>
frameVars == <<rafQueue, frameRun, frameTs>>
mainVars == <<meshRed, meshBlue, needsUpdate>>
vars ==
    <<dipoles, instanceIndices, activeDipoleIndices, maxDipoles, params,
      redMatricesBuffer, blueMatricesBuffer, redMatrices, blueMatrices,
      lastTimestamp, simulationRunning, rafQueue, frameRun, frameTs,
      heap, toMain, toWorker, meshRed, meshBlue, needsUpdate, last>>

NoDipoles == [i \in {} |-> 0]         \* let dipoles = []

\* what a handler that is no tick reports; op is "load", "init",
\* "tick" or, for every other message, "msg"
Did(op) ==
    [op |-> op, ran |-> FALSE, deltaMs |-> 0, spawned |-> -1, visited |-> <<>>,
     died |-> <<>>, updated |-> 0, threw |-> FALSE, posted |-> 0,
     sentRed |-> Undefined, sentBlue |-> Undefined, writes |-> <<>>, scheduled |-> 0]

Init ==
    /\ dipoles = NoDipoles
    /\ instanceIndices = <<>>
    /\ activeDipoleIndices = <<>>
    /\ maxDipoles = 0
    /\ params = [f \in {} |-> 0]
    /\ redMatricesBuffer = Undefined
    /\ blueMatricesBuffer = Undefined
    /\ redMatrices = Undefined
    /\ blueMatrices = Undefined
    /\ lastTimestamp = 0
    /\ simulationRunning = FALSE
    /\ rafQueue = 0
    /\ frameRun = 0
    /\ frameTs = 0
    /\ heap = [b \in BufIds |-> Blank]
    /\ toMain = <<>>
    /\ toWorker = <<>>
    /\ meshRed = ZeroData(MeshCapacity)
    /\ meshBlue = ZeroData(MeshCapacity)
    /\ needsUpdate = FALSE
    /\ last = Did("load")

\* ------------------------------------------------- the simulation step
\* The state a tick works on.  writes: every typedArray.set call, with the
\* buffer the view is on and who held that buffer at the call.
TickState ==
    [dipoles |-> dipoles, free |-> instanceIndices, active |-> activeDipoleIndices,
     heap |-> heap, writes |-> <<>>, threw |-> FALSE, updated |-> 0,
     spawned |-> -1, visited |-> <<>>, died |-> <<>>]

OwnerOf(h, id) == IF id = Undefined THEN "none" ELSE h[id].owner

\* view.set(matrix, matrixIndex) throws a RangeError unless the 16 floats fit
SetFits(h, id, matrixIndex) == matrixIndex + FloatsPerMatrix <= ViewLength(h, id)

SetEvent(h, id, index) ==
    [buf |-> id, owner |-> OwnerOf(h, id), index |-> index,
     ok |-> SetFits(h, id, index * FloatsPerMatrix)]

StoreMat(h, id, index, mat) == [h EXCEPT ![id].data[index] = mat]

\* updateInstanceMatrix(dipole, scale): the red view is set, then the blue one;
\* a set that throws ends the handler that called it.
UpdateInstanceMatrix(s, slot, mat) ==
    LET index == s.dipoles[slot].instanceIndex
        matrixIndex == index * FloatsPerMatrix
        redEv == SetEvent(s.heap, redMatrices, index)
        h1 == StoreMat(s.heap, redMatrices, index, mat)
        blueEv == SetEvent(h1, blueMatrices, index)
    IN  IF ~SetFits(s.heap, redMatrices, matrixIndex)
        THEN [s EXCEPT !.writes = Append(@, redEv), !.threw = TRUE]
        ELSE IF ~SetFits(h1, blueMatrices, matrixIndex)
        THEN [s EXCEPT !.heap = h1, !.writes = @ \o <<redEv, blueEv>>, !.threw = TRUE]
        ELSE [s EXCEPT !.heap = StoreMat(h1, blueMatrices, index, mat),
                       !.writes = @ \o <<redEv, blueEv>>]

\* params.dipoleLifetime * (0.8 + Math.random() * 0.4), in milliseconds
NewLife(lifetime, r) ==
    (lifetime * MsPerSecond * (8 * RandDen + 4 * r)) \div (10 * RandDen)

\* createDipole(), r the draw that sets the life
CreateDipole(s, r) ==
    IF Len(s.free) = 0 THEN s
    ELSE LET instanceIndex == Top(s.free)
             life == NewLife(params.dipoleLifetime, r)
             s1 == [s EXCEPT !.free = Pop(@),
                             !.active = Push(@, instanceIndex),
                             !.dipoles[instanceIndex] =
                                 [life |-> life, maxLife |-> life,
                                  instanceIndex |-> instanceIndex],
                             !.spawned = instanceIndex]
         IN  UpdateInstanceMatrix(s1, instanceIndex, EpsMat)

\* one pass of the for loop body, i the 0-based position in the active list
AdvanceOne(s, i, deltaMs) ==
    LET actualIndex == s.active[i + 1]
        life == s.dipoles[actualIndex].life - deltaMs * params.speed
        maxLife == s.dipoles[actualIndex].maxLife
        s1 == [s EXCEPT !.dipoles[actualIndex].life = life,
                        !.visited = Append(@, actualIndex)]
    IN  IF life <= 0
        THEN LET s2 == UpdateInstanceMatrix(s1, actualIndex, HideMat)
             IN  IF s2.threw THEN s2
                 ELSE [s2 EXCEPT !.free = Push(@, s2.dipoles[actualIndex].instanceIndex),
                                 !.active = Splice1(@, i),
                                 !.dipoles[actualIndex].life = 0,
                                 !.died = Append(@, actualIndex),
                                 !.updated = @ + 1]
        ELSE LET s2 == UpdateInstanceMatrix(s1, actualIndex,
                                            LiveMat(maxLife - life, maxLife))
             IN  IF s2.threw THEN s2 ELSE [s2 EXCEPT !.updated = @ + 1]

\* for (let i = activeDipoleIndices.length - 1; i >= 0; i--)
RECURSIVE AdvanceLoop(_, _, _)
AdvanceLoop(s, i, deltaMs) ==
    IF i < 0 \/ s.threw THEN s
    ELSE AdvanceLoop(AdvanceOne(s, i, deltaMs), i - 1, deltaMs)

\* lastTimestamp > 0 ? (timestamp - lastTimestamp) / 1000 : 0.016
DeltaMs(timestamp) ==
    IF lastTimestamp > 0 THEN timestamp - lastTimestamp ELSE DefaultDeltaMs

\* (mutant) a spawn test against half the chance
SpawnDrawHalf(r, deltaMs) ==
    /\ "creationProbability" \in DOMAIN params
    /\ 2 * r * MsPerSecond < params.creationProbability * deltaMs * RandDen

\* (mutant) a spawn test that also passes when the draw equals the chance
SpawnDrawOrEqual(r, deltaMs) ==
    /\ "creationProbability" \in DOMAIN params
    /\ r * MsPerSecond <= params.creationProbability * deltaMs * RandDen

\* Math.random() < params.creationProbability * deltaTime, the draw being
\* r / RandDen; a missing creationProbability makes the product NaN
SpawnDraw(r, deltaMs) ==
    /\ "creationProbability" \in DOMAIN params
    /\ r * MsPerSecond < params.creationProbability * deltaMs * RandDen

\* (mutant) a spawn step that, finding no free slot, takes over the first
\* active slot and gives it a new life
SimulateRecycles(deltaMs, r1, r2) ==
    LET s0 == TickState
        victim == s0.active[1]
        life == NewLife(params.dipoleLifetime, r2)
        s1 == IF ~SpawnDraw(r1, deltaMs) THEN s0
              ELSE IF Len(s0.free) > 0 THEN CreateDipole(s0, r2)
              ELSE IF Len(s0.active) > 0
              THEN [s0 EXCEPT !.dipoles[victim] =
                       [life |-> life, maxLife |-> life, instanceIndex |-> victim]]
              ELSE s0
    IN  AdvanceLoop(s1, Len(s1.active) - 1, deltaMs)

\* (mutant) a tick that advances the active particles first and spawns last,
\* so that a new particle is not aged in the tick that spawns it
SimulateSpawnLast(deltaMs, r1, r2) ==
    LET s0 == TickState
        s1 == AdvanceLoop(s0, Len(s0.active) - 1, deltaMs)
    IN  IF SpawnDraw(r1, deltaMs) /\ Len(s1.free) > 0 /\ ~s1.threw
        THEN CreateDipole(s1, r2) ELSE s1

\* the spawn decision and the advance loop of one tick
Simulate(deltaMs, r1, r2) ==
    LET s0 == TickState
        s1 == IF SpawnDraw(r1, deltaMs) /\ Len(s0.free) > 0
              THEN CreateDipole(s0, r2) ELSE s0
    IN  AdvanceLoop(s1, Len(s1.active) - 1, deltaMs)

\* (mutant) a publish that keeps writing into the pair it has sent
HeapAfterPublishKeepsPair(h) ==
    [heap |-> Transfer(h, redMatricesBuffer, blueMatricesBuffer, "toMain"),
     red |-> redMatricesBuffer, blue |-> blueMatricesBuffer]

\* the buffers a publish leaves the worker with: the pair it held goes to the
\* consumer, two new ArrayBuffers take its place
HeapAfterPublish(h) ==
    LET h1 == Transfer(h, redMatricesBuffer, blueMatricesBuffer, "toMain")
        red == FreshId(h1)
        h2 == NewArrayBuffer(h1, red, maxDipoles * FloatsPerMatrix * BytesPerFloat)
        blue == FreshId(h2)
    IN  [heap |-> NewArrayBuffer(h2, blue, maxDipoles * FloatsPerMatrix * BytesPerFloat),
         red |-> red, blue |-> blue]

MatricesUpdate(red, blue) ==
    [type |-> "matricesUpdate", redMatrices |-> red, blueMatrices |-> blue]

ReturnBuffersMsg(red, blue) ==
    [type |-> "returnBuffers", redMatrices |-> red, blueMatrices |-> blue]

TickReport(s, deltaMs, posted) ==
    [op |-> "tick", ran |-> TRUE, deltaMs |-> deltaMs, spawned |-> s.spawned,
     visited |-> s.visited, died |-> s.died, updated |-> s.updated,
     threw |-> s.threw, posted |-> posted,
     sentRed |-> IF posted > 0 THEN redMatricesBuffer ELSE Undefined,
     sentBlue |-> IF posted > 0 THEN blueMatricesBuffer ELSE Undefined,
     writes |-> s.writes, scheduled |-> IF s.threw THEN 0 ELSE 1]

\* what the tick does after the loop: publish if updatedInstances > 0
Publishes(s) == ~s.threw /\ s.updated > 0

\* (mutant) a tick that does not look at the running flag
TickAlwaysRuns == TRUE

\* if (!simulationRunning) return;
TickRuns == simulationRunning

\* updateSimulation(timestamp), one callback of the running frame
UpdateSimulation ==
    /\ frameRun > 0
    /\ frameRun' = frameRun - 1
    /\ UNCHANGED <<frameTs, toWorker, mainVars, maxDipoles, params,
                   simulationRunning>>
    /\ IF ~TickRuns
       THEN /\ last' = Did("tick")
            /\ UNCHANGED <<dipoles, instanceIndices, activeDipoleIndices,
                           bufferVars, lastTimestamp, rafQueue, heap, toMain>>
       ELSE \E r1 \in RandNums, r2 \in RandNums :
              LET deltaMs == DeltaMs(frameTs)
                  s == Simulate(deltaMs, r1, r2)
                  pub == HeapAfterPublish(s.heap)
              IN  /\ lastTimestamp' = frameTs
                  /\ dipoles' = s.dipoles
                  /\ instanceIndices' = s.free
                  /\ activeDipoleIndices' = s.active
                  /\ IF Publishes(s)
                     THEN /\ toMain' = Append(toMain,
                                  MatricesUpdate(redMatricesBuffer, blueMatricesBuffer))
                          /\ heap' = pub.heap
                          /\ redMatricesBuffer' = pub.red
                          /\ blueMatricesBuffer' = pub.blue
                          /\ redMatrices' = pub.red
                          /\ blueMatrices' = pub.blue
                          /\ last' = TickReport(s, deltaMs, 1)
                     ELSE /\ heap' = s.heap
                          /\ UNCHANGED <<toMain, bufferVars>>
                          /\ last' = TickReport(s, deltaMs, 0)
                  /\ rafQueue' = IF s.threw THEN rafQueue ELSE rafQueue + 1

\* the browser starts a frame, StepMs after the one before: the callbacks
\* registered so far run, one after the other and all with the frame's
\* timestamp, before any message is handled
BeginFrameUpTo(steps) ==
    /\ frameRun = 0
    /\ rafQueue > 0
    /\ Cardinality(FreeIds(heap)) >= 2 * rafQueue
    /\ frameTs + StepMs <= steps * StepMs
    /\ frameTs' = frameTs + StepMs
    /\ frameRun' = rafQueue
    /\ rafQueue' = 0
    /\ UNCHANGED <<workerVars, heap, toMain, toWorker, mainVars, last>>

BeginFrame == BeginFrameUpTo(MaxSteps)

\* performance.now() in a message handler.  The handler runs after the frame
\* stamped frameTs and before the callbacks of the next frame, stamped
\* frameTs + StepMs.  A frame is stamped when it begins and its callbacks run
\* later, so the handler may read a time before, at or after that stamp.
PerformanceNow == {frameTs, frameTs + StepMs, frameTs + StepMs + FrameLagMs}

\* ------------------------------------------------- the worker's onmessage
\* case 'init'
InitPool(cap) ==
    [dipoles |-> [i \in 0..(cap - 1) |->
                     [life |-> 0, maxLife |-> 0, instanceIndex |-> i]],
     free |-> [k \in 1..cap |-> k - 1],
     active |-> <<>>]

\* (mutant) an init that goes on writing into the pair it has posted
HeapAfterInitKeepsPair(h, cap) ==
    LET bytes == cap * FloatsPerMatrix * BytesPerFloat
        h0 == Drop(Drop(h, redMatricesBuffer), blueMatricesBuffer)
        red1 == FreshId(h0)
        h1 == NewArrayBuffer(h0, red1, bytes)
        blue1 == FreshId(h1)
    IN  [heap |-> Transfer(NewArrayBuffer(h1, blue1, bytes), red1, blue1, "toMain"),
         sentRed |-> red1, sentBlue |-> blue1, red |-> red1, blue |-> blue1]

\* the buffers init leaves: a first pair is allocated and posted at once, a
\* second pair is allocated for the worker to write into
HeapAfterInit(h, cap) ==
    LET bytes == cap * FloatsPerMatrix * BytesPerFloat
        h0 == Drop(Drop(h, redMatricesBuffer), blueMatricesBuffer)
        red1 == FreshId(h0)
        h1 == NewArrayBuffer(h0, red1, bytes)
        blue1 == FreshId(h1)
        h2 == Transfer(NewArrayBuffer(h1, blue1, bytes), red1, blue1, "toMain")
        red2 == FreshId(h2)
        h3 == NewArrayBuffer(h2, red2, bytes)
        blue2 == FreshId(h3)
    IN  [heap |-> NewArrayBuffer(h3, blue2, bytes),
         sentRed |-> red1, sentBlue |-> blue1, red |-> red2, blue |-> blue2]

\* (mutant) an init that stops the simulation
InitStops == FALSE

\* the running flag after init: init does not assign it
RunningAfterInit == simulationRunning

OnInit(cap, p) ==
    /\ frameRun = 0
    /\ Cardinality(FreeIds(Drop(Drop(heap, redMatricesBuffer), blueMatricesBuffer))) >= 4
    /\ LET pool == InitPool(cap)
           b == HeapAfterInit(heap, cap)
       IN  /\ maxDipoles' = cap
           /\ params' = p
           /\ dipoles' = pool.dipoles
           /\ instanceIndices' = pool.free
           /\ activeDipoleIndices' = pool.active
           /\ heap' = b.heap
           /\ toMain' = Append(toMain, MatricesUpdate(b.sentRed, b.sentBlue))
           /\ redMatricesBuffer' = b.red
           /\ blueMatricesBuffer' = b.blue
           /\ redMatrices' = b.red
           /\ blueMatrices' = b.blue
           /\ last' = [Did("init") EXCEPT !.posted = 1, !.sentRed = b.sentRed,
                                         !.sentBlue = b.sentBlue]
    /\ simulationRunning' = RunningAfterInit
    /\ UNCHANGED <<lastTimestamp, frameVars, toWorker, mainVars>>

\* case 'start': the callbacks start registers
StartSchedules == IF ~simulationRunning THEN 1 ELSE 0

OnStart(now) ==
    /\ frameRun = 0
    /\ rafQueue + StartSchedules <= MaxCallbacks
    /\ IF ~simulationRunning
       THEN /\ simulationRunning' = TRUE
            /\ lastTimestamp' = now
       ELSE UNCHANGED <<simulationRunning, lastTimestamp>>
    /\ rafQueue' = rafQueue + StartSchedules
    /\ last' = [Did("msg") EXCEPT !.scheduled = StartSchedules]
    /\ UNCHANGED <<poolVars, params, bufferVars, frameRun, frameTs, heap,
                   toMain, toWorker, mainVars>>

\* case 'stop'
OnStop ==
    /\ frameRun = 0
    /\ simulationRunning' = FALSE
    /\ last' = Did("msg")
    /\ UNCHANGED <<poolVars, params, bufferVars, lastTimestamp, frameVars,
                   heap, toMain, toWorker, mainVars>>

\* case 'updateParams'
OnUpdateParams(p) ==
    /\ frameRun = 0
    /\ params' = MergeParams(params, p)
    /\ last' = Did("msg")
    /\ UNCHANGED <<poolVars, bufferVars, lastTimestamp, simulationRunning,
                   frameVars, heap, toMain, toWorker, mainVars>>

\* the buffers after case 'returnBuffers': the returned pair replaces the pair
\* the worker held
HeapAfterReturn(h, m) ==
    Transfer(Drop(Drop(h, redMatricesBuffer), blueMatricesBuffer),
             m.redMatrices, m.blueMatrices, "worker")

OnReturnBuffers ==
    /\ frameRun = 0
    /\ Len(toWorker) > 0
    /\ LET m == Head(toWorker)
       IN  /\ heap' = HeapAfterReturn(heap, m)
           /\ redMatricesBuffer' = m.redMatrices
           /\ blueMatricesBuffer' = m.blueMatrices
           /\ redMatrices' = m.redMatrices
           /\ blueMatrices' = m.blueMatrices
    /\ toWorker' = Tail(toWorker)
    /\ last' = Did("msg")
    /\ UNCHANGED <<poolVars, params, lastTimestamp, simulationRunning, frameVars,
                   toMain, mainVars>>

\* (mutant) an unknown message that stops the simulation
OnUnknownStops ==
    /\ frameRun = 0
    /\ simulationRunning' = FALSE
    /\ last' = Did("msg")
    /\ UNCHANGED <<poolVars, params, bufferVars, lastTimestamp, frameVars,
                   heap, toMain, toWorker, mainVars>>

\* default: console.error
OnUnknown ==
    /\ frameRun = 0
    /\ last' = Did("msg")
    /\ UNCHANGED <<workerVars, frameVars, heap, toMain, toWorker, mainVars>>

\* ------------------------------------------- the consumer's onmessage
\* instanceMatrix.array.set(matrices): the source is copied to the front of
\* the mesh array
MeshSet(mesh, data) ==
    [i \in DOMAIN mesh |-> IF i \in DOMAIN data THEN data[i] ELSE mesh[i]]

\* set throws a RangeError when the source is longer than the mesh array
MeshFits(h, id) == h[id].byteLength <= MeshCapacity * FloatsPerMatrix * BytesPerFloat

\* (mutant) a consumer that keeps the buffers
NoReply(m) == <<>>

\* what the consumer posts back for a matricesUpdate it has copied
Reply(m) == <<ReturnBuffersMsg(m.redMatrices, m.blueMatrices)>>

MainOnMessage ==
    /\ Len(toMain) > 0
    /\ toMain' = Tail(toMain)
    /\ LET m == Head(toMain)
       IN  IF MeshFits(heap, m.redMatrices) /\ MeshFits(heap, m.blueMatrices)
           THEN /\ meshRed' = MeshSet(meshRed, heap[m.redMatrices].data)
                /\ meshBlue' = MeshSet(meshBlue, heap[m.blueMatrices].data)
                /\ needsUpdate' = TRUE
                /\ toWorker' = toWorker \o Reply(m)
                /\ heap' = Transfer(heap, m.redMatrices, m.blueMatrices, "toWorker")
           ELSE /\ heap' = Transfer(heap, m.redMatrices, m.blueMatrices, "main")
                /\ UNCHANGED <<meshRed, meshBlue, needsUpdate, toWorker>>
    /\ UNCHANGED <<workerVars, frameVars, last>>

Next ==
    \/ \E cap \in Caps, p \in InitParams : OnInit(cap, p)
    \/ \E now \in PerformanceNow : OnStart(now)
    \/ OnStop
    \/ \E p \in ParamUpdates : OnUpdateParams(p)
    \/ OnReturnBuffers
    \/ OnUnknown
    \/ BeginFrame
    \/ UpdateSimulation
    \/ MainOnMessage

Spec == Init /\ [][Next]_vars

\* The event loops deliver every posted message, and a frame that has begun
\* runs all its callbacks: the frame ends (frameRun returns to 0), which is
\* what weak fairness of UpdateSimulation amounts to.
FairSpec ==
    Spec /\ WF_vars(MainOnMessage) /\ WF_vars(OnReturnBuffers) /\ []<>(frameRun = 0)

\* A run of the page: it creates the worker, posts init once and then start,
\* and never posts stop; the simulation then runs frame after frame while the
\* page takes the published pairs and posts them back.  At any time after
\* init a control of the page may call updateWorkerParams(), which posts
\* updateParams with the page's whole params object, as the controls have
\* set it by then.
PageNext ==
    \/ (maxDipoles = 0 /\ \E cap \in Caps, p \in PageParams : OnInit(cap, p))
    \/ (maxDipoles > 0 /\ ~simulationRunning /\ \E now \in PerformanceNow : OnStart(now))
    \/ (maxDipoles > 0 /\ \E p \in PageParams : OnUpdateParams(p))
    \/ BeginFrameUpTo(PageSteps)
    \/ UpdateSimulation
    \/ MainOnMessage
    \/ OnReturnBuffers

PageSpec == Init /\ [][PageNext]_vars

\* A run in which the pool is initialised again with a larger capacity: the
\* capacities an init carries only grow, up to one more than the consumer's
\* mesh holds; start and stop arrive at any time, and the consumer takes the
\* pairs it is posted.
ReinitCaps == {1, MaxCap + 1}

ReinitNext ==
    \/ \E cap \in ReinitCaps, p \in InitParams : cap > maxDipoles /\ OnInit(cap, p)
    \/ \E now \in PerformanceNow : OnStart(now)
    \/ OnStop
    \/ OnReturnBuffers
    \/ BeginFrameUpTo(ReinitSteps)
    \/ UpdateSimulation
    \/ MainOnMessage

ReinitSpec == Init /\ [][ReinitNext]_vars

\* ================================================================ claims
Slots == 0..(maxDipoles - 1)
Active == Elems(activeDipoleIndices)
Free == Elems(instanceIndices)
IsTick == last.op = "tick" /\ last.ran
OnInitStep == \E cap \in Caps, p \in InitParams : OnInit(cap, p)

\* the buffers that were posted to the consumer and have not come back to the
\* worker in a returnBuffers message
Outstanding == {b \in BufIds : heap[b].owner \in {"toMain", "main", "toWorker"}}
PairsInFlight == Cardinality(Outstanding) \div 2

\* C1: the free list and the active list partition the slots 0..maxDipoles-1:
\* every slot is in exactly one of the two lists, and in it exactly once.
C1_SlotsPartitioned ==
    /\ Free \cup Active = Slots
    /\ Free \cap Active = {}
    /\ Len(instanceIndices) + Len(activeDipoleIndices) = maxDipoles

\* a tick of a pool of two slots has spawned one dipole and released one
C1_Witness ==
    /\ IsTick /\ maxDipoles = 2
    /\ last.spawned # -1 /\ last.died # <<>>

\* C2: every view.set call of createDipole and updateSimulation is made on a
\* view of a buffer the worker holds at that moment, never on a buffer it has
\* posted and not received back.
C2_WritesOwned ==
    \A k \in 1..Len(last.writes) : last.writes[k].owner = "worker"

\* a tick has written and published while an earlier pair was on its way back
C2_Witness ==
    /\ IsTick /\ last.writes # <<>> /\ last.posted = 1
    /\ Len(toWorker) >= 1

\* C3 as claimed: at most one pair is in flight at any time.
C3_AtMostOneInFlight == PairsInFlight <= 1

\* C3 as amended: the worker posts without waiting for the pair posted before,
\* so more than one pair can be in flight; the pair the worker holds is never
\* one of them, and no buffer is in two messages.
C3_InFlightNeverHeld ==
    LET msgs == toMain \o toWorker
    IN  /\ redMatricesBuffer # Undefined =>
              /\ heap[redMatricesBuffer].owner = "worker"
              /\ heap[blueMatricesBuffer].owner = "worker"
              /\ redMatrices = redMatricesBuffer
              /\ blueMatrices = blueMatricesBuffer
        /\ \A k \in 1..Len(msgs) :
              /\ msgs[k].redMatrices # msgs[k].blueMatrices
              /\ {msgs[k].redMatrices, msgs[k].blueMatrices} \subseteq Outstanding
              /\ \A j \in 1..Len(msgs) :
                    j # k => {msgs[j].redMatrices, msgs[j].blueMatrices}
                             \cap {msgs[k].redMatrices, msgs[k].blueMatrices} = {}

\* a tick has published while the pair init posted was still in flight
C3_Witness == IsTick /\ last.posted = 1 /\ PairsInFlight >= 2

\* C4 as claimed: after init the pool is empty and the running flag is false.
C4_InitEmptyAndStopped ==
    last.op = "init" =>
        /\ activeDipoleIndices = <<>>
        /\ Len(instanceIndices) = maxDipoles
        /\ ~simulationRunning

\* C4 as amended: init empties the pool (no active slot, every slot free) and
\* leaves the running flag and the registered callbacks as they were.
C4_InitEmptiesKeepsRunning ==
    [][OnInitStep =>
          /\ activeDipoleIndices' = <<>>
          /\ Elems(instanceIndices') = 0..(maxDipoles' - 1)
          /\ Len(instanceIndices') = maxDipoles'
          /\ simulationRunning' = simulationRunning
          /\ rafQueue' = rafQueue]_vars

\* init has been handled while the simulation was running, a callback pending
C4_Witness == last.op = "init" /\ simulationRunning /\ rafQueue > 0

\* C5: at most one updateSimulation callback is pending at any time.
C5_OneCallbackPending == rafQueue + frameRun <= 1

\* C6: a tick that finds the running flag false changes nothing: no particle,
\* pool or buffer state, no message posted, no callback registered.  The
\* consumer can still take a pair in flight, and the worker its return.
C6_StoppedTickIdle ==
    /\ [][(UpdateSimulation /\ ~simulationRunning) =>
            /\ UNCHANGED <<workerVars, heap, toMain, toWorker, mainVars>>
            /\ rafQueue' = rafQueue]_vars
    /\ [](~simulationRunning =>
            /\ (toMain # <<>> => ENABLED MainOnMessage)
            /\ ((toWorker # <<>> /\ frameRun = 0) => ENABLED OnReturnBuffers))

\* after stop, the pending callback has run and returned at its top, with a
\* pair still in flight
C6_Witness ==
    /\ last.op = "tick" /\ ~last.ran
    /\ ~simulationRunning /\ rafQueue = 0 /\ frameRun = 0
    /\ toMain # <<>>

\* C7: a tick publishes exactly one matricesUpdate if it spawned, advanced or
\* killed a particle and none otherwise, and after a publish holds another
\* pair than the one it sent.
C7_PublishIffTouched ==
    IsTick =>
        /\ last.posted = (IF last.spawned # -1 \/ last.visited # <<>> THEN 1 ELSE 0)
        /\ last.posted = 1 => last.sentRed \notin {redMatricesBuffer, blueMatricesBuffer}

\* C8: the consumer answers every matricesUpdate it takes with exactly one
\* returnBuffers carrying the same two buffers, nothing else adds a
\* returnBuffers, and every buffer posted to the consumer comes back to the
\* worker.
C8_EveryUpdateReturned ==
    /\ [][Len(toMain') < Len(toMain) =>
            toWorker' = Append(toWorker,
                ReturnBuffersMsg(Head(toMain).redMatrices, Head(toMain).blueMatrices))]_vars
    /\ [][Len(toWorker') > Len(toWorker) => Len(toMain') < Len(toMain)]_vars
    /\ \A b \in BufIds : (heap[b].owner = "toMain") ~> (heap[b].owner = "worker")

\* the consumer has copied a pair and posted it back
C8_Witness == needsUpdate /\ Len(toWorker) > 0

\* C9: between handlers a slot is active iff its life is > 0, and every free
\* slot has life 0.
C9_ActiveIffAlive ==
    \A i \in Slots :
        /\ (i \in Active) <=> (dipoles[i].life > 0)
        /\ (i \in Free) => (dipoles[i].life = 0)

\* C10: in a tick the life of a slot that was active does not grow, and a
\* slot whose life reaches <= 0 leaves the active list for the free list in
\* that tick.
C10_LifeNeverGrows ==
    [][(UpdateSimulation /\ simulationRunning) =>
          \A i \in Active :
              /\ dipoles'[i].life <= dipoles[i].life
              /\ dipoles'[i].life <= 0 =>
                    /\ i \notin Elems(activeDipoleIndices')
                    /\ Len(SelectSeq(instanceIndices', LAMBDA x : x = i)) = 1]_vars

\* a tick that runs: the running flag is true when the callback is called
RunningTick == UpdateSimulation /\ simulationRunning

\* C11: a tick whose elapsed time is zero or negative does no aging: the life
\* of every active particle is after the tick what it was before, and no
\* particle dies in that tick.
C11_NoAgingWithoutTime ==
    [][(RunningTick /\ DeltaMs(frameTs) <= 0) =>
          /\ \A i \in Active : dipoles'[i].life = dipoles[i].life
          /\ last'.died = <<>>]_vars

\* C12: a tick with elapsed time 0 spawns nothing, whatever the spawn rate,
\* the draw and the free list: the active list gets no new slot.
C12_NoSpawnAtZeroDt ==
    [][(RunningTick /\ DeltaMs(frameTs) = 0) =>
          /\ last'.spawned = -1
          /\ Len(activeDipoleIndices') <= Len(activeDipoleIndices)
          /\ Elems(activeDipoleIndices') \subseteq Active]_vars

\* a tick with elapsed time 0 has run with a free slot and the higher spawn rate
C12_Witness ==
    /\ IsTick /\ last.deltaMs = 0 /\ last.spawned = -1
    /\ Len(instanceIndices) = maxDipoles /\ maxDipoles > 0
    /\ params.creationProbability = 2

\* C13: the active list never holds more than maxDipoles slots, and a tick
\* that finds the free list empty skips the spawn step without an error: no
\* slot is allocated, the loop passes over the slots that were active and no
\* others, no slot gets a new life, and every matrix write is one of the loop.
C13_SaturatedSpawnSkipped ==
    /\ [](Len(activeDipoleIndices) <= maxDipoles)
    /\ [][(RunningTick /\ Len(instanceIndices) = 0) =>
            /\ last'.spawned = -1
            /\ \A i \in Slots : dipoles'[i].maxLife = dipoles[i].maxLife
            /\ Len(last'.visited) <= Len(activeDipoleIndices)
            /\ ~last'.threw => Len(last'.visited) = Len(activeDipoleIndices)
            /\ Len(last'.writes) <= 2 * Len(last'.visited)
            /\ Len(activeDipoleIndices') <= Len(activeDipoleIndices)]_vars

\* a tick with a positive spawn chance has run on a pool whose slots were all
\* active
C13_Witness ==
    /\ IsTick /\ maxDipoles > 0 /\ last.deltaMs > 0
    /\ last.spawned = -1 /\ Len(last.visited) = maxDipoles

Min(a, b) == IF a <= b THEN a ELSE b

\* the spawn chance of the tick about to run is at least 1
SureSpawn ==
    /\ "creationProbability" \in DOMAIN params
    /\ params.creationProbability * DeltaMs(frameTs) >= MsPerSecond

\* C14: in a tick whose spawn chance is at least 1 and in which no particle
\* dies, exactly one particle is spawned if a slot is free and none otherwise:
\* the active count goes from k to min(maxDipoles, k + 1), so it rises by one
\* per tick up to maxDipoles and stays there.
C14_SureSpawnSaturates ==
    [][(RunningTick /\ SureSpawn /\ last'.died = <<>>) =>
          /\ (last'.spawned # -1) <=> (Len(instanceIndices) > 0)
          /\ last'.spawned # -1 => last'.spawned = Top(instanceIndices)
          /\ Len(activeDipoleIndices') =
                 Min(maxDipoles, Len(activeDipoleIndices) + 1)]_vars

\* ticks with a spawn chance of 1 (the age of every particle is a multiple of
\* their elapsed time) have filled a pool of two slots, and a further such
\* tick has left it full, no particle having died
C14_Witness ==
    /\ IsTick /\ maxDipoles = 2 /\ Len(activeDipoleIndices) = 2
    /\ params.creationProbability * last.deltaMs >= MsPerSecond
    /\ last.spawned = -1 /\ last.died = <<>> /\ Len(last.visited) = 2
    /\ \A i \in Slots : (dipoles[i].maxLife - dipoles[i].life) % StepMs = 0

\* The scenario of C15: a particle of total life 2 s (four steps of 0.5 s),
\* speed multiplier 1, ticks 0.5 s apart.
ScenarioLife == 4 * StepMs
ScenarioTick ==
    /\ RunningTick /\ DeltaMs(frameTs) = StepMs
    /\ "speed" \in DOMAIN params /\ params.speed = 1

\* the transform of slot i in the pair the tick has published is mat, in both
\* lobe buffers
Sent(i, mat) ==
    /\ last'.posted = 1
    /\ heap'[last'.sentRed].data[i] = mat
    /\ heap'[last'.sentBlue].data[i] = mat

\* the particles of the scenario that were spawned n ticks ago
Aged(n) ==
    {i \in Active : dipoles[i].maxLife = ScenarioLife
                     /\ dipoles[i].life = ScenarioLife - n * StepMs}

\* the tick has spawned a particle of the scenario in slot i
SpawnedScenario(i) ==
    last'.spawned = i /\ dipoles'[i].maxLife = ScenarioLife

\* C15 as claimed: the transforms written on the 1st (spawn), 2nd, 3rd and 4th
\* tick of the particle have life progress 0, 1/4, 2/4 and 3/4, and the slot
\* is released at the 4th tick.
C15_ProgressFromZero ==
    [][ScenarioTick =>
          /\ \A i \in Slots : SpawnedScenario(i) =>
                 \/ Sent(i, EpsMat)
                 \/ Sent(i, LiveMat(0, ScenarioLife))
          /\ \A n \in 1..2 : \A i \in Aged(n) :
                 Sent(i, LiveMat(n * StepMs, ScenarioLife))
          /\ \A i \in Aged(3) :
                 i \in Elems(instanceIndices')]_vars

\* C15 as amended: the tick that spawns the particle also ages it, so the
\* transform it publishes has progress 1/4 (the 0.001-scale transform of the
\* spawn is overwritten before the publish); the 2nd and 3rd tick publish
\* progress 2/4 and 3/4; the 4th tick publishes the zero-scale transform and
\* releases the slot.
C15_ProgressQuarterSteps ==
    [][ScenarioTick =>
          /\ \A i \in Slots : SpawnedScenario(i) =>
                 /\ Sent(i, LiveMat(StepMs, ScenarioLife))
                 /\ dipoles'[i].life = ScenarioLife - StepMs
                 /\ i \in Elems(activeDipoleIndices')
          /\ \A n \in 1..2 : \A i \in Aged(n) :
                 /\ Sent(i, LiveMat((n + 1) * StepMs, ScenarioLife))
                 /\ dipoles'[i].life = ScenarioLife - (n + 1) * StepMs
                 /\ i \in Elems(activeDipoleIndices')
          /\ \A i \in Aged(3) :
                 /\ Sent(i, HideMat)
                 /\ dipoles'[i].life = 0
                 /\ i \in Elems(instanceIndices')
                 /\ i \notin Elems(activeDipoleIndices')]_vars

\* the 4th tick of a particle of the scenario has released its slot: the
\* pair of its 3rd tick, with progress 3/4, still exists
C15_Witness ==
    /\ IsTick /\ last.deltaMs = StepMs /\ params.speed = 1 /\ last.posted = 1
    /\ \E i \in Elems(last.died) :
          /\ dipoles[i].maxLife = ScenarioLife
          /\ heap[last.sentRed].data[i] = HideMat
          /\ \E b \in BufIds :
                /\ heap[b].owner # "none" /\ i \in DOMAIN heap[b].data
                /\ heap[b].data[i] = LiveMat(3 * StepMs, ScenarioLife)

\* C16: updateParams sets the configuration fields the message carries to
\* the message's values, keeps every other field, and changes nothing else:
\* not the pool, the buffers, the running flag, the timestamp, the registered
\* callbacks or the messages in flight.
C16_ParamsMerged ==
    [][\A p \in ParamUpdates : OnUpdateParams(p) =>
          /\ DOMAIN params' = (DOMAIN params) \cup (DOMAIN p)
          /\ \A f \in DOMAIN p : params'[f] = p[f]
          /\ \A f \in (DOMAIN params) \ (DOMAIN p) : params'[f] = params[f]
          /\ UNCHANGED <<poolVars, bufferVars, heap, simulationRunning,
                         lastTimestamp, frameVars, toMain, toWorker>>]_vars

\* updateParams has been handled in a running simulation with a particle
\* alive: speed and spawn rate are the message's, the lifetime is init's
C16_Witness ==
    /\ last.op = "msg" /\ simulationRunning /\ Active # {}
    /\ DOMAIN params = ParamFields
    /\ params.speed = 2 /\ params.creationProbability = 2
    /\ params.dipoleLifetime = 1 /\ params.spinSpeed = 1

\* C17: a message of an unknown type is dropped: the handler changes neither
\* pool, configuration, buffers, running flag, callbacks nor messages in
\* flight, and the worker goes on handling messages: between frames stop,
\* updateParams and a posted returnBuffers can always be handled.
C17_UnknownDropped ==
    /\ [][OnUnknown =>
            UNCHANGED <<workerVars, frameVars, heap, toMain, toWorker, mainVars>>]_vars
    /\ [](frameRun = 0 =>
            /\ ENABLED OnUnknown
            /\ ENABLED OnStop
            /\ ENABLED (\E p \in ParamUpdates : OnUpdateParams(p))
            /\ (toWorker # <<>> => ENABLED OnReturnBuffers))

\* a message handler has returned having changed nothing, in a running
\* simulation with a particle alive, a callback registered and pairs in
\* flight; it was not stop (the flag is true), not updateParams (the speed is
\* init's) and not returnBuffers (the consumer has not handled a message)
C17_Witness ==
    /\ last.op = "msg" /\ last.scheduled = 0
    /\ simulationRunning /\ rafQueue = 1 /\ Active # {}
    /\ DOMAIN params = ParamFields /\ params.speed = 1
    /\ ~needsUpdate /\ Len(toMain) >= 2

\* a transform of scale 0: the zero bytes of a new buffer, or the matrix
\* updateInstanceMatrix(dipole, 0) writes
Invisible(mat) == mat.kind \in {"zero", "hide"}

\* C18: in the pair a tick has published, every slot that is not active
\* carries a zero-scale transform in both lobe buffers.
C18_InactiveSlotsInvisible ==
    (IsTick /\ last.posted = 1) =>
        \A i \in Slots \ Active :
            /\ i \in DOMAIN heap[last.sentRed].data =>
                  Invisible(heap[last.sentRed].data[i])
            /\ i \in DOMAIN heap[last.sentBlue].data =>
                  Invisible(heap[last.sentBlue].data[i])

\* C19: the pair the worker writes into has room for maxDipoles matrices in
\* each buffer, and every write of a tick, at offset slot * 16, is in bounds.
C19_WritePairHasRoom ==
    /\ redMatricesBuffer # Undefined =>
          /\ ViewLength(heap, redMatrices) >= maxDipoles * FloatsPerMatrix
          /\ ViewLength(heap, blueMatrices) >= maxDipoles * FloatsPerMatrix
    /\ \A k \in 1..Len(last.writes) : last.writes[k].ok

\* C20: when the life of an active particle reaches <= 0 in a tick, the tick
\* writes the zero-scale transform for its slot into both lobe buffers,
\* releases the slot, and publishes the pair with that transform in it.
C20_DeathZeroedAndPublished ==
    [][RunningTick =>
          \A i \in Active :
              dipoles[i].life - DeltaMs(frameTs) * params.speed <= 0 =>
                  /\ last'.posted = 1
                  /\ heap'[last'.sentRed].data[i] = HideMat
                  /\ heap'[last'.sentBlue].data[i] = HideMat
                  /\ i \in Elems(instanceIndices')
                  /\ \E k \in 1..Len(last'.writes) :
                        /\ last'.writes[k].index = i
                        /\ last'.writes[k].ok]_vars

\* C21: while the running flag is true an updateSimulation callback is
\* pending: registered for the next frame, or still to run in the frame that
\* is being run.
C21_RunningKeepsCallback ==
    simulationRunning => rafQueue + frameRun >= 1

\* the slots in the active list when the advance loop of the tick starts: the
\* slots that were active, and the slot the tick has spawned
LoopStart == Active \cup (IF last'.spawned # -1 THEN {last'.spawned} ELSE {})

\* the advance loop of the tick has started: the tick has not ended in the
\* spawn step
LoopStarted == ~(last'.threw /\ last'.visited = <<>>)

\* the life the loop leaves a slot with after one pass over it
AgedOnce(life, deltaMs) ==
    IF life - deltaMs * params.speed <= 0
    THEN {0, life - deltaMs * params.speed}
    ELSE {life - deltaMs * params.speed}

\* C22: the advance loop of a tick passes exactly once over every slot that
\* is in the active list when it starts, the slot spawned in the tick
\* included, also when slots die and are spliced out on the way: none is
\* skipped, none is passed twice, and the life of each is decremented once.
C22_EachActiveSlotAgedOnce ==
    [][(RunningTick /\ LoopStarted) =>
          /\ Elems(last'.visited) = LoopStart
          /\ Len(last'.visited) = Cardinality(LoopStart)
          /\ \A i \in Active :
                dipoles'[i].life \in AgedOnce(dipoles[i].life, DeltaMs(frameTs))]_vars

====
